---- MODULE Spec2Model ----
(***************************************************************************)
(* A model of tinyscript (src/tinyscript.ts): the lexer, the recursive-    *)
(* descent parser, the Scope chain and the tree-walking evaluator.         *)
(*                                                                         *)
(* Text is a sequence of one-character strings, a lexeme or a name is the  *)
(* sequence of its characters.  A runtime value is a record [t, v]:        *)
(*   t = "int"   v = the integer                                           *)
(*   t = "bool"  v = 1 (true) or 0 (false)                                 *)
(*   t = "fn"    v = the FnLiteral node the value refers to                *)
(*   t = "undef" the JavaScript value undefined (the spec's NoValue)       *)
(*   t = "other" a JavaScript value outside these kinds (NaN, a fraction,  *)
(*               a string); the programs of Programs never produce it.     *)
(* A JavaScript object used as a map ({}) is a function whose DOMAIN is    *)
(* the set of its own keys; reading a key it does not have gives the       *)
(* value undefined.                                                        *)
(***************************************************************************)
EXTENDS Integers, Sequences, FiniteSets, TLC

VARIABLES
    pc,      \* position of the script (lines 889-898) or of the harness
    src,     \* the input text, `code'
    index,   \* the position of tokenize in the text (1-based)
    tokens,  \* the tokens pushed by tokenize, or the token sequence handed to parse
    ast,     \* the result of parse: [err, node]
    scopes,  \* every Scope object created so far, by identity 1..Len(scopes)
    out,     \* the values written by console.log in executePrintStatement
    kont,    \* the evaluator's call stack, innermost exec first
    ctl,     \* what the evaluator does next
    last     \* the Scope operation just performed and its outcome

vars == <<pc, src, index, tokens, ast, scopes, out, kont, ctl, last>>

----------------------------------------------------------------------------
(* Bounds of the model. *)

MaxScopes == 3   \* Scope objects created under SpecScope
MaxLoop == 3     \* the loop of src/README.md counts to at most MaxLoop
MaxFib == 8      \* fib of src/README.md is called on at most MaxFib
MaxOperators == 2   \* binary operators in a generated expression

----------------------------------------------------------------------------
(* Runtime values. *)

Undefined == [t |-> "undef", v |-> 0]
IntV(n) == [t |-> "int", v |-> n]
BoolV(b) == [t |-> "bool", v |-> IF b THEN 1 ELSE 0]
FnV(node) == [t |-> "fn", v |-> node]
OtherV == [t |-> "other", v |-> 0]

\* x != undefined, for the values a run can hold (none of them is null)
NotUndefined(x) == x.t # "undef"

\* JavaScript truthiness, as `if (...)' and `while (...)' apply it
Truthy(x) ==
    CASE x.t = "int" -> x.v # 0
      [] x.t = "bool" -> x.v = 1
      [] x.t = "fn" -> TRUE
      [] x.t = "undef" -> FALSE
      [] OTHER -> FALSE

----------------------------------------------------------------------------
(* Errors: what a throw carries.  `value' is the field the catch of        *)
(* executeFuncCallExpression reads; only TSFuncRetError has one.           *)

NoError == [type |-> "none", msg |-> "", value |-> Undefined]
TSError(msg) == [type |-> "TSError", msg |-> msg, value |-> Undefined]
TSFuncRetError(value) == [type |-> "TSFuncRetError", msg |-> "", value |-> value]
\* the host's TypeError for a property read on undefined
TypeError == [type |-> "TypeError", msg |-> "property of undefined", value |-> Undefined]

----------------------------------------------------------------------------
(* Scope. *)

\* objects[name] of a plain object
ObjGet(objects, name) == IF name \in DOMAIN objects THEN objects[name] ELSE Undefined

\* objects[name] = value
ObjPut(objects, name, value) ==
    [n \in DOMAIN objects \cup {name} |-> IF n = name THEN value ELSE objects[n]]

EmptyObject == [n \in {} |-> Undefined]

\* new Scope(parent); parent 0 is null
NewScope(parent) == [parent |-> parent, objects |-> EmptyObject]

\* Scope.global()
global == <<NewScope(0)>>

\* scope.create(): the heap with the new scope appended; its identity is Len
create(sc, s) == Append(sc, NewScope(s))

\* the test `this.objects[name] != undefined'
HasDefined(sc, s, name) == NotUndefined(ObjGet(sc[s].objects, name))

RECURSIVE lookupScope(_, _, _)
lookupScope(sc, s, name) ==
    IF HasDefined(sc, s, name) THEN s
    ELSE IF sc[s].parent # 0 THEN lookupScope(sc, sc[s].parent, name)
    ELSE 0

\* each operation gives [err, scopes, ret]: the throw if any, the heap after, the result
define(sc, s, name, value) ==
    IF HasDefined(sc, s, name)
    THEN [err |-> TSError("already defined in current scope"), scopes |-> sc, ret |-> Undefined]
    ELSE [err |-> NoError,
          scopes |-> [sc EXCEPT ![s].objects = ObjPut(@, name, value)],
          ret |-> Undefined]

set(sc, s, name, value) ==
    LET scope == lookupScope(sc, s, name) IN
    IF scope = 0
    THEN [err |-> TSError("undefined"), scopes |-> sc, ret |-> Undefined]
    ELSE [err |-> NoError,
          scopes |-> [sc EXCEPT ![scope].objects = ObjPut(@, name, value)],
          ret |-> Undefined]

get(sc, s, name) ==
    LET scope == lookupScope(sc, s, name) IN
    IF scope = 0
    THEN [err |-> TSError("undefined"), scopes |-> sc, ret |-> Undefined]
    ELSE [err |-> NoError, scopes |-> sc, ret |-> ObjGet(sc[scope].objects, name)]

----------------------------------------------------------------------------
(* tokenize.  A token is [type, has, value]: `has' tells whether the       *)
(* constructor was given a lexeme (value is undefined when it was not).    *)

Token(type) == [type |-> type, has |-> FALSE, value |-> <<>>]
TokenIntLiteral(value) == [type |-> "IntLiteral", has |-> TRUE, value |-> value]
TokenId(value) == [type |-> "Id", has |-> TRUE, value |-> value]

keywords ==
    (<<"a", "n", "d">> :> "And") @@
    (<<"o", "r">> :> "Or") @@
    (<<"n", "o", "t">> :> "Not") @@
    (<<"d", "e", "f">> :> "Def") @@
    (<<"l", "e", "t">> :> "Let") @@
    (<<"p", "r", "i", "n", "t">> :> "Print") @@
    (<<"i", "f">> :> "If") @@
    (<<"e", "l", "s", "e">> :> "Else") @@
    (<<"w", "h", "i", "l", "e">> :> "While") @@
    (<<"f", "n">> :> "Fn") @@
    (<<"r", "e", "t", "u", "r", "n">> :> "Return") @@
    (<<"c", "a", "l", "l">> :> "Call")

\* the letter-only members every plain object inherits from Object.prototype:
\* keywords[value] is a function, not undefined, for these words
ObjectPrototypeKeys == {
    <<"c", "o", "n", "s", "t", "r", "u", "c", "t", "o", "r">>,
    <<"h", "a", "s", "O", "w", "n", "P", "r", "o", "p", "e", "r", "t", "y">>,
    <<"i", "s", "P", "r", "o", "t", "o", "t", "y", "p", "e", "O", "f">>,
    <<"p", "r", "o", "p", "e", "r", "t", "y", "I", "s", "E", "n", "u", "m", "e", "r", "a", "b", "l", "e">>,
    <<"t", "o", "L", "o", "c", "a", "l", "e", "S", "t", "r", "i", "n", "g">>,
    <<"t", "o", "S", "t", "r", "i", "n", "g">>,
    <<"v", "a", "l", "u", "e", "O", "f">>}

\* keywords[value]: a TokenType, an inherited member, or undefined
KeywordsGet(value) ==
    IF value \in DOMAIN keywords THEN keywords[value]
    ELSE IF value \in ObjectPrototypeKeys THEN "Object.prototype member"
    ELSE "undefined"

Whitespace == {" ", "\t", "\n", "\r"}
Digits == {"0", "1", "2", "3", "4", "5", "6", "7", "8", "9"}
Letters == {"a", "b", "c", "d", "e", "f", "g", "h", "i", "j", "k", "l", "m", "n", "o", "p", "q", "r", "s", "t", "u", "v", "w", "x", "y", "z",
            "A", "B", "C", "D", "E", "F", "G", "H", "I", "J", "K", "L", "M", "N", "O", "P", "Q", "R", "S", "T", "U", "V", "W", "X", "Y", "Z"}

isWhitespace(c) == c \in Whitespace
isNumber(c) == c \in Digits
isLetter(c) == c \in Letters

\* `while (isNumber(char)) { value += char; index++; char = input[index]; }':
\* the idx after the run.  Past the end char is undefined, and
\* /[0-9]/.test(undefined) is false.
RECURSIVE NumberRunEnd(_, _)
NumberRunEnd(input, idx) ==
    IF idx <= Len(input) /\ isNumber(input[idx])
    THEN NumberRunEnd(input, idx + 1)
    ELSE idx

\* the same loop with isLetter: the idx after the run, or 0 when the run
\* reaches the end of the input.  There char is undefined, the test
\* /[a-z]/i.test(undefined) matches the text "undefined", and the loop never ends.
RECURSIVE LetterRunEnd(_, _)
LetterRunEnd(input, idx) ==
    IF idx > Len(input) THEN 0
    ELSE IF isLetter(input[idx]) THEN LetterRunEnd(input, idx + 1)
    ELSE idx

\* the loop of tokenize spinning for ever
Diverges == [type |-> "diverges", msg |-> "while (isLetter(char))", value |-> Undefined]

\* input[idx] == c, false past the end
CharIs(input, idx, c) == idx <= Len(input) /\ input[idx] = c

SingleCharTokens ==
    ("(" :> "LParen") @@ (")" :> "RParen") @@ ("{" :> "LCurly") @@ ("}" :> "RCurly") @@
    ("+" :> "Plus") @@ ("-" :> "Minus") @@ ("*" :> "Mul") @@ ("/" :> "Div") @@
    (";" :> "Semi") @@ ("," :> "Comma")

\* what one pass of the loop body does: [err, idx, tokens]
Lexed(idx, toks) == [err |-> NoError, idx |-> idx, tokens |-> toks]

\* one pass of `while (index < input.length)' at `idx' (1-based, within the
\* input), `toks' being the tokens pushed so far
tokenizeStep(input, idx, toks) ==
    LET char == input[idx] IN
    IF isWhitespace(char) THEN Lexed(idx + 1, toks)
    ELSE IF isNumber(char) THEN
        LET end == NumberRunEnd(input, idx) IN
        Lexed(end, Append(toks, TokenIntLiteral(SubSeq(input, idx, end - 1))))
    ELSE IF isLetter(char) THEN
        LET end == LetterRunEnd(input, idx) IN
        IF end = 0 THEN [err |-> Diverges, idx |-> idx, tokens |-> toks]
        ELSE LET value == SubSeq(input, idx, end - 1)
                 kwType == KeywordsGet(value)
             IN  IF kwType # "undefined"
                 THEN Lexed(end, Append(toks, Token(kwType)))
                 ELSE Lexed(end, Append(toks, TokenId(value)))
    ELSE IF char \in DOMAIN SingleCharTokens THEN
        Lexed(idx + 1, Append(toks, Token(SingleCharTokens[char])))
    ELSE IF char = ">" THEN
        IF CharIs(input, idx + 1, "=")
        THEN Lexed(idx + 2, Append(toks, Token("GE")))
        ELSE Lexed(idx + 1, Append(toks, Token("GT")))
    ELSE IF char = "<" THEN
        IF CharIs(input, idx + 1, ">")
        THEN Lexed(idx + 2, Append(toks, Token("NE")))
        ELSE IF CharIs(input, idx + 1, "=")
        THEN Lexed(idx + 2, Append(toks, Token("LE")))
        ELSE Lexed(idx + 1, Append(toks, Token("LT")))
    ELSE IF char = "=" THEN
        IF CharIs(input, idx + 1, "=")
        THEN Lexed(idx + 2, Append(toks, Token("EQ")))
        ELSE IF CharIs(input, idx + 1, ">")
        THEN Lexed(idx + 2, Append(toks, Token("RightArrow")))
        ELSE Lexed(idx + 1, Append(toks, Token("Assign")))
    ELSE [err |-> TSError("Unknown char"), idx |-> idx, tokens |-> toks]

\* the loop of tokenize from `idx' on: [err, tokens]
RECURSIVE tokenizeFrom(_, _, _)
tokenizeFrom(input, idx, toks) ==
    IF idx > Len(input) THEN [err |-> NoError, tokens |-> toks]
    ELSE LET r == tokenizeStep(input, idx, toks) IN
         IF r.err.type = "none" THEN tokenizeFrom(input, r.idx, r.tokens)
         ELSE [err |-> r.err, tokens |-> r.tokens]

tokenize(input) == tokenizeFrom(input, 1, <<>>)

----------------------------------------------------------------------------
(* AST nodes, as the constructors of lines 236-392 build them. *)

Null == [kind |-> "null"]
Program(body) == [kind |-> "Program", body |-> body]
DefStatement(id, value) == [kind |-> "DefStatement", id |-> id, value |-> value]
LetStatement(id, value) == [kind |-> "LetStatement", id |-> id, value |-> value]
PrintStatement(value) == [kind |-> "PrintStatement", value |-> value]
BlockStatement(body) == [kind |-> "BlockStatement", body |-> body]
IfStatement(condition, body, elseBody) ==
    [kind |-> "IfStatement", condition |-> condition, body |-> body, elseBody |-> elseBody]
WhileStatement(condition, body) ==
    [kind |-> "WhileStatement", condition |-> condition, body |-> body]
CallStatement(expr) == [kind |-> "CallStatement", expr |-> expr]
ReturnStatement(expr) == [kind |-> "ReturnStatement", expr |-> expr]
BinaryExpression(left, operator, right) ==
    [kind |-> "BinaryExpression", left |-> left, operator |-> operator, right |-> right]
FuncCallExpression(func, args) == [kind |-> "FuncCallExpression", func |-> func, args |-> args]
NameExpression(name) == [kind |-> "NameExpression", name |-> name]
IntLiteral(value) == [kind |-> "IntLiteral", value |-> value]
FnLiteral(args, body) == [kind |-> "FnLiteral", args |-> args, body |-> body]

operators ==
    ("Plus" :> "+") @@ ("Minus" :> "-") @@ ("Mul" :> "*") @@ ("Div" :> "/") @@
    ("EQ" :> "==") @@ ("NE" :> "<>") @@ ("GE" :> ">=") @@ ("LE" :> "<=") @@
    ("GT" :> ">") @@ ("LT" :> "<")

----------------------------------------------------------------------------
(* parse.  Every parse function takes the tokens and the index of the next *)
(* token (1-based) and gives [err, node, i]: the throw if any, what it     *)
(* returns, and the index after it.                                        *)

Ok(node, i) == [err |-> NoError, node |-> node, i |-> i]
Thrown(err, i) == [err |-> err, node |-> Null, i |-> i]
IsOk(r) == r.err.type = "none"

\* peek() is undefined once the tokens are exhausted
PeekUndefined(toks, i) == i > Len(toks)

\* peek().type; read only where PeekUndefined is false
PeekType(toks, i) == toks[i].type

\* match(type): the matched token is the node of the result.  On exhausted
\* tokens `token.type' is a property read on undefined.
match(toks, i, type) ==
    IF PeekUndefined(toks, i) THEN Thrown(TypeError, i)
    ELSE IF PeekType(toks, i) = type THEN Ok(toks[i], i + 1)
    ELSE Thrown(TSError("Expected token"), i)

DigitValue ==
    ("0" :> 0) @@ ("1" :> 1) @@ ("2" :> 2) @@ ("3" :> 3) @@ ("4" :> 4) @@
    ("5" :> 5) @@ ("6" :> 6) @@ ("7" :> 7) @@ ("8" :> 8) @@ ("9" :> 9)

\* parseInt of a run of decimal digits
RECURSIVE parseInt(_)
parseInt(value) ==
    IF value = <<>> THEN 0
    ELSE 10 * parseInt(SubSeq(value, 1, Len(value) - 1)) + DigitValue[value[Len(value)]]

RelationalTypes == {"EQ", "NE", "GE", "LE", "GT", "LT"}
AdditiveTypes == {"Plus", "Minus"}
MultiplicativeTypes == {"Mul", "Div"}

\* a parse function calling a parse function by name: parse's functions are
\* closures that refer to each other
RECURSIVE Call(_, _, _)
RECURSIVE parseBlockLoop(_, _, _)
RECURSIVE parseRelationalLoop(_, _)
RECURSIVE parseAdditiveLoop(_, _)
RECURSIVE parseMultiplicativeLoop(_, _)
RECURSIVE parseArgumentLoop(_, _, _)

\* the next call of a parse function after the call that gave r: it is made
\* only when r did not throw
thenMatch(r, toks, type) == IF IsOk(r) THEN match(toks, r.i, type) ELSE r
thenExpression(r, toks) == IF IsOk(r) THEN Call("parseExpression", toks, r.i) ELSE r
thenStatement(r, toks) == IF IsOk(r) THEN Call("parseStatement", toks, r.i) ELSE r

\* `match(Def|Let); id = match(Id); match(Assign); expr; match(Semi)'
parseBinding(toks, i, type) ==
    LET id == thenMatch(match(toks, i, type), toks, "Id")
        expr == thenExpression(thenMatch(id, toks, "Assign"), toks)
        semi == thenMatch(expr, toks, "Semi")
    IN  IF ~IsOk(semi) THEN semi
        ELSE IF type = "Def" THEN Ok(DefStatement(id.node.value, expr.node), semi.i)
        ELSE Ok(LetStatement(id.node.value, expr.node), semi.i)

parseDefStatement(toks, i) == parseBinding(toks, i, "Def")

parseLetStatement(toks, i) == parseBinding(toks, i, "Let")

\* `match(type); expr = parseExpression(); match(Semi)': node is <<expr>>
parseKeywordExpression(toks, i, type) ==
    LET expr == thenExpression(match(toks, i, type), toks)
        semi == thenMatch(expr, toks, "Semi")
    IN  IF IsOk(semi) THEN Ok(<<expr.node>>, semi.i) ELSE semi

parsePrintStatement(toks, i) ==
    LET r == parseKeywordExpression(toks, i, "Print") IN
    IF IsOk(r) THEN Ok(PrintStatement(r.node[1]), r.i) ELSE r

parseCallStatement(toks, i) ==
    LET r == parseKeywordExpression(toks, i, "Call") IN
    IF IsOk(r) THEN Ok(CallStatement(r.node[1]), r.i) ELSE r

parseReturnStatement(toks, i) ==
    LET r == parseKeywordExpression(toks, i, "Return") IN
    IF IsOk(r) THEN Ok(ReturnStatement(r.node[1]), r.i) ELSE r

\* the `while (true)' of parseBlockStatement, `statements' collected so far
parseBlockLoop(toks, i, statements) ==
    IF PeekUndefined(toks, i) THEN Thrown(TypeError, i)
    ELSE IF PeekType(toks, i) = "RCurly" THEN Ok(BlockStatement(statements), i + 1)
    ELSE LET s == Call("parseStatement", toks, i) IN
         IF IsOk(s) THEN parseBlockLoop(toks, s.i, Append(statements, s.node)) ELSE s

parseBlockStatement(toks, i) ==
    LET m == match(toks, i, "LCurly") IN
    IF IsOk(m) THEN parseBlockLoop(toks, m.i, <<>>) ELSE m

\* `match(If|While); match(LParen); condition; match(RParen); body = parseStatement()':
\* node is <<condition, body>>
parseConditionAndBody(toks, i, type) ==
    LET condition == thenExpression(thenMatch(match(toks, i, type), toks, "LParen"), toks)
        body == thenStatement(thenMatch(condition, toks, "RParen"), toks)
    IN  IF IsOk(body) THEN Ok(<<condition.node, body.node>>, body.i) ELSE body

\* the else part, cb being the condition and body: after the body,
\* `const type = peek().type' is read whether or not a token is left
parseElse(toks, cb) ==
    IF PeekUndefined(toks, cb.i) THEN Thrown(TypeError, cb.i)
    ELSE IF PeekType(toks, cb.i) = "Else"
    THEN LET elseBody == Call("parseStatement", toks, cb.i + 1) IN
         IF IsOk(elseBody)
         THEN Ok(IfStatement(cb.node[1], cb.node[2], elseBody.node), elseBody.i)
         ELSE elseBody
    ELSE Ok(IfStatement(cb.node[1], cb.node[2], Null), cb.i)

parseIfStatement(toks, i) ==
    LET cb == parseConditionAndBody(toks, i, "If") IN
    IF IsOk(cb) THEN parseElse(toks, cb) ELSE cb

parseWhileStatement(toks, i) ==
    LET cb == parseConditionAndBody(toks, i, "While") IN
    IF IsOk(cb) THEN Ok(WhileStatement(cb.node[1], cb.node[2]), cb.i) ELSE cb

\* the switch of parseStatement on a token type
StatementOf(type, toks, i) ==
    CASE type = "Def" -> Call("parseDefStatement", toks, i)
      [] type = "Let" -> Call("parseLetStatement", toks, i)
      [] type = "Print" -> Call("parsePrintStatement", toks, i)
      [] type = "LCurly" -> Call("parseBlockStatement", toks, i)
      [] type = "If" -> Call("parseIfStatement", toks, i)
      [] type = "While" -> Call("parseWhileStatement", toks, i)
      [] type = "Call" -> Call("parseCallStatement", toks, i)
      [] type = "Return" -> Call("parseReturnStatement", toks, i)
      [] OTHER -> Thrown(TSError("Unknown statement"), i)

parseStatement(toks, i) ==
    IF PeekUndefined(toks, i) THEN Thrown(TypeError, i)
    ELSE StatementOf(PeekType(toks, i), toks, i)

\* `expr = new BinaryExpression(expr, operator, right)': r is expr so far, type
\* the operator's token
binary(r, type, right) ==
    IF IsOk(right)
    THEN Ok(BinaryExpression(r.node, operators[type], right.node), right.i)
    ELSE right

\* the `while (true)' of parseRelationalExpression; r is `expr' so far
parseRelationalLoop(toks, r) ==
    IF PeekUndefined(toks, r.i) THEN Thrown(TypeError, r.i)
    ELSE IF PeekType(toks, r.i) \in RelationalTypes
    THEN LET next == binary(r, PeekType(toks, r.i), Call("parseAdditiveExpression", toks, r.i + 1)) IN
         IF IsOk(next) THEN parseRelationalLoop(toks, next) ELSE next
    ELSE r

parseRelationalExpression(toks, i) ==
    LET expr == Call("parseAdditiveExpression", toks, i) IN
    IF IsOk(expr) THEN parseRelationalLoop(toks, expr) ELSE expr

parseExpression(toks, i) == Call("parseRelationalExpression", toks, i)

\* parseAdditiveLoop grouping to the right: the right operand is the whole rest
\* of the additive expression (C9 fails on it)
parseAdditiveRight(toks, r) ==
    IF PeekUndefined(toks, r.i) THEN Thrown(TypeError, r.i)
    ELSE IF PeekType(toks, r.i) \in AdditiveTypes
    THEN binary(r, PeekType(toks, r.i), Call("parseAdditiveExpression", toks, r.i + 1))
    ELSE r

\* the `while (true)' of parseAdditiveExpression
parseAdditiveLoop(toks, r) ==
    IF PeekUndefined(toks, r.i) THEN Thrown(TypeError, r.i)
    ELSE IF PeekType(toks, r.i) \in AdditiveTypes
    THEN LET next == binary(r, PeekType(toks, r.i),
                            Call("parseMultiplicativeExpression", toks, r.i + 1)) IN
         IF IsOk(next) THEN parseAdditiveLoop(toks, next) ELSE next
    ELSE r

parseAdditiveExpression(toks, i) ==
    LET expr == Call("parseMultiplicativeExpression", toks, i) IN
    IF IsOk(expr) THEN parseAdditiveLoop(toks, expr) ELSE expr

parseMultiplicativeLoop(toks, r) ==
    IF PeekUndefined(toks, r.i) THEN Thrown(TypeError, r.i)
    ELSE IF PeekType(toks, r.i) \in MultiplicativeTypes
    THEN LET next == binary(r, PeekType(toks, r.i), Call("parsePostfixExpression", toks, r.i + 1)) IN
         IF IsOk(next) THEN parseMultiplicativeLoop(toks, next) ELSE next
    ELSE r

parseMultiplicativeExpression(toks, i) ==
    LET expr == Call("parsePostfixExpression", toks, i) IN
    IF IsOk(expr) THEN parseMultiplicativeLoop(toks, expr) ELSE expr

\* `while (peek().type == Comma)' of parseArgumentList; node is the args so far
parseArgumentLoop(toks, i, args) ==
    IF PeekUndefined(toks, i) THEN Thrown(TypeError, i)
    ELSE IF PeekType(toks, i) = "Comma"
    THEN LET arg == Call("parseExpression", toks, i + 1) IN
         IF IsOk(arg) THEN parseArgumentLoop(toks, arg.i, Append(args, arg.node)) ELSE arg
    ELSE Ok(args, i)

parseArgumentList(toks, i) ==
    IF PeekUndefined(toks, i) THEN Thrown(TypeError, i)
    ELSE IF PeekType(toks, i) = "RParen" THEN Ok(<<>>, i)
    ELSE LET arg == Call("parseExpression", toks, i) IN
         IF IsOk(arg) THEN parseArgumentLoop(toks, arg.i, <<arg.node>>) ELSE arg

\* the call suffix of parsePostfixExpression, expr being the primary expression
parseCallSuffix(toks, expr) ==
    IF PeekUndefined(toks, expr.i) THEN Thrown(TypeError, expr.i)
    ELSE IF PeekType(toks, expr.i) = "LParen"
    THEN LET args == Call("parseArgumentList", toks, expr.i + 1)
             m == thenMatch(args, toks, "RParen")
         IN  IF IsOk(m) THEN Ok(FuncCallExpression(expr.node, args.node), m.i) ELSE m
    ELSE expr

parsePostfixExpression(toks, i) ==
    LET expr == Call("parsePrimaryExpression", toks, i) IN
    IF IsOk(expr) THEN parseCallSuffix(toks, expr) ELSE expr

\* the parameter loop of parseFnLiteral after the first Id; node is the names so far
RECURSIVE parseParameterLoop(_, _, _)
parseParameterLoop(toks, i, args) ==
    IF PeekUndefined(toks, i) THEN Thrown(TypeError, i)
    ELSE IF PeekType(toks, i) = "Comma"
    THEN LET id == match(toks, i + 1, "Id") IN
         IF IsOk(id) THEN parseParameterLoop(toks, id.i, Append(args, id.node.value)) ELSE id
    ELSE Ok(args, i)

\* `if (peek().type != RParen) { args.push(match(Id).value); ... }'
parseParameters(toks, i) ==
    IF PeekUndefined(toks, i) THEN Thrown(TypeError, i)
    ELSE IF PeekType(toks, i) # "RParen"
    THEN LET id == match(toks, i, "Id") IN
         IF IsOk(id) THEN parseParameterLoop(toks, id.i, <<id.node.value>>) ELSE id
    ELSE Ok(<<>>, i)

thenParameters(r, toks) == IF IsOk(r) THEN parseParameters(toks, r.i) ELSE r
thenBlockStatement(r, toks) == IF IsOk(r) THEN Call("parseBlockStatement", toks, r.i) ELSE r

parseFnLiteral(toks, i) ==
    LET args == thenParameters(thenMatch(match(toks, i, "Fn"), toks, "LParen"), toks)
        body == thenBlockStatement(
                    thenMatch(thenMatch(args, toks, "RParen"), toks, "RightArrow"), toks)
    IN  IF IsOk(body) THEN Ok(FnLiteral(args.node, body.node), body.i) ELSE body

\* `forward(); expr = parseExpression(); match(RParen); return expr'
parseParenthesized(toks, i) ==
    LET expr == Call("parseExpression", toks, i + 1)
        m == thenMatch(expr, toks, "RParen")
    IN  IF IsOk(m) THEN Ok(expr.node, m.i) ELSE m

\* the tests of parsePrimaryExpression on a token type
PrimaryOf(type, toks, i) ==
    CASE type = "IntLiteral" -> Ok(IntLiteral(parseInt(toks[i].value)), i + 1)
      [] type = "Fn" -> Call("parseFnLiteral", toks, i)
      [] type = "Id" -> Ok(NameExpression(toks[i].value), i + 1)
      [] type = "LParen" -> parseParenthesized(toks, i)
      [] OTHER -> Thrown(TSError("Unknown token"), i)

parsePrimaryExpression(toks, i) ==
    IF PeekUndefined(toks, i) THEN Thrown(TypeError, i)
    ELSE PrimaryOf(PeekType(toks, i), toks, i)

\* the `while (index < tokens.length)' of parseProgram
RECURSIVE parseProgramLoop(_, _, _)
parseProgramLoop(toks, i, statements) ==
    IF i > Len(toks) THEN Ok(Program(statements), i)
    ELSE LET s == Call("parseStatement", toks, i) IN
         IF IsOk(s) THEN parseProgramLoop(toks, s.i, Append(statements, s.node)) ELSE s

parseProgram(toks) == parseProgramLoop(toks, 1, <<>>)

\* the parse function called `name'
Call(name, toks, i) ==
    CASE name = "parseDefStatement" -> parseDefStatement(toks, i)
      [] name = "parseLetStatement" -> parseLetStatement(toks, i)
      [] name = "parsePrintStatement" -> parsePrintStatement(toks, i)
      [] name = "parseBlockStatement" -> parseBlockStatement(toks, i)
      [] name = "parseIfStatement" -> parseIfStatement(toks, i)
      [] name = "parseWhileStatement" -> parseWhileStatement(toks, i)
      [] name = "parseCallStatement" -> parseCallStatement(toks, i)
      [] name = "parseReturnStatement" -> parseReturnStatement(toks, i)
      [] name = "parseStatement" -> parseStatement(toks, i)
      [] name = "parseExpression" -> parseExpression(toks, i)
      [] name = "parseRelationalExpression" -> parseRelationalExpression(toks, i)
      [] name = "parseAdditiveExpression" -> parseAdditiveExpression(toks, i)
      [] name = "parseMultiplicativeExpression" -> parseMultiplicativeExpression(toks, i)
      [] name = "parsePostfixExpression" -> parsePostfixExpression(toks, i)
      [] name = "parsePrimaryExpression" -> parsePrimaryExpression(toks, i)
      [] name = "parseArgumentList" -> parseArgumentList(toks, i)
      [] name = "parseFnLiteral" -> parseFnLiteral(toks, i)

\* parse(tokens): [err, node]
parse(toks) == LET r == parseProgram(toks) IN [err |-> r.err, node |-> r.node]

----------------------------------------------------------------------------
(* execute.  The recursion of exec is a stack of frames, innermost first:  *)
(* one frame per handler that is waiting for an exec it called.  A frame   *)
(* is [k, node, scope, i, vals, val]: which wait it is, the handler's node *)
(* and scope, and its locals.  ctl is what happens next: exec(node, scope) *)
(* is called, a handler returns val, or err is being thrown.               *)

Exec(node, scope) ==
    [m |-> "exec", node |-> node, scope |-> scope, val |-> Undefined, err |-> NoError]
Ret(val) == [m |-> "ret", node |-> Null, scope |-> 0, val |-> val, err |-> NoError]
Throw(err) == [m |-> "throw", node |-> Null, scope |-> 0, val |-> Undefined, err |-> err]

\* no Scope operation performed yet
NoOp == [op |-> "none", recv |-> 0, name |-> <<>>, value |-> Undefined,
         err |-> NoError, ret |-> Undefined]

\* execute is not running
IdleCtl == [m |-> "idle", node |-> Null, scope |-> 0,
            val |-> Undefined, err |-> NoError]

Frame(k, node, scope) ==
    [k |-> k, node |-> node, scope |-> scope, i |-> 0, vals |-> <<>>, val |-> Undefined]

Push(frame) == <<frame>> \o kont
Replace(frame) == <<frame>> \o Tail(kont)

\* exec(node, scope) is about to run the handler of `kind'
Entering(kind) == pc = "execute" /\ ctl.m = "exec" /\ ctl.node.kind = kind

\* the exec awaited by a frame of kind k has returned
Returned(k) == pc = "execute" /\ ctl.m = "ret" /\ kont # <<>> /\ Head(kont).k = k

\* ToNumber of an Integer or Boolean
Num(x) == x.v

Numeric(x) == x.t \in {"int", "bool"}

Abs(n) == IF n < 0 THEN -n ELSE n

\* the switch of executeBinaryExpression on Integer and Boolean operands (a
\* Boolean counts as 1 or 0); OtherV stands for every result that is not an
\* Integer or a Boolean
ApplyOperator(operator, left, right) ==
    IF Numeric(left) /\ Numeric(right) THEN
        CASE operator = "+" -> IntV(Num(left) + Num(right))
          [] operator = "-" -> IntV(Num(left) - Num(right))
          [] operator = "*" -> IntV(Num(left) * Num(right))
          [] operator = "/" ->
                IF Num(right) # 0 /\ Abs(Num(left)) % Abs(Num(right)) = 0
                THEN IntV((IF (Num(left) < 0) = (Num(right) < 0) THEN 1 ELSE -1)
                          * (Abs(Num(left)) \div Abs(Num(right))))
                ELSE OtherV
          [] operator = "==" -> BoolV(Num(left) = Num(right))
          [] operator = "<>" -> BoolV(Num(left) # Num(right))
          [] operator = ">=" -> BoolV(Num(left) >= Num(right))
          [] operator = "<=" -> BoolV(Num(left) <= Num(right))
          [] operator = ">" -> BoolV(Num(left) > Num(right))
          [] operator = "<" -> BoolV(Num(left) < Num(right))
    ELSE IF left.t = "undef" /\ right.t = "undef" /\ operator \in {"==", "<>"}
    THEN BoolV(operator = "==")
    ELSE OtherV

\* line 868: exec(program, Scope.global())
execute ==
    /\ pc = "execute"
    /\ ctl.m = "idle"
    /\ scopes' = global
    /\ ctl' = Exec(ast.node, 1)
    /\ UNCHANGED <<pc, src, index, tokens, ast, out, kont, last>>

executeProgram ==
    /\ Entering("Program")
    /\ IF ctl.node.body = <<>>
       THEN /\ ctl' = Ret(Undefined)
            /\ kont' = kont
       ELSE /\ kont' = Push([Frame("Program", ctl.node, ctl.scope) EXCEPT !.i = 1])
            /\ ctl' = Exec(ctl.node.body[1], ctl.scope)
    /\ UNCHANGED <<pc, src, index, tokens, ast, scopes, out, last>>

\* executeBlockStatement running the body in the scope it was given, with no
\* scope.create() (C5 fails on it)
executeBlockStatementInPlace ==
    /\ Entering("BlockStatement")
    /\ IF ctl.node.body = <<>>
       THEN /\ ctl' = Ret(Undefined)
            /\ kont' = kont
       ELSE /\ kont' = Push([Frame("Block", ctl.node, ctl.scope) EXCEPT !.i = 1])
            /\ ctl' = Exec(ctl.node.body[1], ctl.scope)
    /\ UNCHANGED <<pc, src, index, tokens, ast, scopes, out, last>>

executeBlockStatement ==
    /\ Entering("BlockStatement")
    /\ scopes' = create(scopes, ctl.scope)
    /\ LET blockScope == Len(scopes) + 1 IN
       IF ctl.node.body = <<>>
       THEN /\ ctl' = Ret(Undefined)
            /\ kont' = kont
       ELSE /\ kont' = Push([Frame("Block", ctl.node, blockScope) EXCEPT !.i = 1])
            /\ ctl' = Exec(ctl.node.body[1], blockScope)
    /\ UNCHANGED <<pc, src, index, tokens, ast, out, last>>

\* node.body.forEach: a statement of a Program or a Block has returned
forEach ==
    /\ pc = "execute" /\ ctl.m = "ret" /\ kont # <<>>
    /\ Head(kont).k \in {"Program", "Block"}
    /\ LET f == Head(kont) IN
       IF f.i < Len(f.node.body)
       THEN /\ kont' = Replace([f EXCEPT !.i = f.i + 1])
            /\ ctl' = Exec(f.node.body[f.i + 1], f.scope)
       ELSE /\ kont' = Tail(kont)
            /\ ctl' = Ret(Undefined)
    /\ UNCHANGED <<pc, src, index, tokens, ast, scopes, out, last>>

executePrintStatement ==
    /\ Entering("PrintStatement")
    /\ kont' = Push(Frame("Print", ctl.node, ctl.scope))
    /\ ctl' = Exec(ctl.node.value, ctl.scope)
    /\ UNCHANGED <<pc, src, index, tokens, ast, scopes, out, last>>

\* console.log(retVal)
printLog ==
    /\ Returned("Print")
    /\ out' = Append(out, ctl.val)
    /\ kont' = Tail(kont)
    /\ ctl' = Ret(Undefined)
    /\ UNCHANGED <<pc, src, index, tokens, ast, scopes, last>>

executeDefStatement ==
    /\ Entering("DefStatement")
    /\ kont' = Push(Frame("Def", ctl.node, ctl.scope))
    /\ ctl' = Exec(ctl.node.value, ctl.scope)
    /\ UNCHANGED <<pc, src, index, tokens, ast, scopes, out, last>>

\* scope.define(node.id, <the value>)
defDefine ==
    /\ Returned("Def")
    /\ LET f == Head(kont)
           r == define(scopes, f.scope, f.node.id, ctl.val)
       IN  /\ scopes' = r.scopes
           /\ ctl' = IF IsOk(r) THEN Ret(Undefined) ELSE Throw(r.err)
           /\ last' = [op |-> "define", recv |-> f.scope, name |-> f.node.id,
                       value |-> ctl.val, err |-> r.err, ret |-> r.ret]
    /\ kont' = Tail(kont)
    /\ UNCHANGED <<pc, src, index, tokens, ast, out>>

executeLetStatement ==
    /\ Entering("LetStatement")
    /\ kont' = Push(Frame("Let", ctl.node, ctl.scope))
    /\ ctl' = Exec(ctl.node.value, ctl.scope)
    /\ UNCHANGED <<pc, src, index, tokens, ast, scopes, out, last>>

\* scope.set(node.id, <the value>)
letSet ==
    /\ Returned("Let")
    /\ LET f == Head(kont)
           r == set(scopes, f.scope, f.node.id, ctl.val)
       IN  /\ scopes' = r.scopes
           /\ ctl' = IF IsOk(r) THEN Ret(Undefined) ELSE Throw(r.err)
           /\ last' = [op |-> "set", recv |-> f.scope, name |-> f.node.id,
                       value |-> ctl.val, err |-> r.err, ret |-> r.ret]
    /\ kont' = Tail(kont)
    /\ UNCHANGED <<pc, src, index, tokens, ast, out>>

executeIfStatement ==
    /\ Entering("IfStatement")
    /\ kont' = Push(Frame("IfCondition", ctl.node, ctl.scope))
    /\ ctl' = Exec(ctl.node.condition, ctl.scope)
    /\ UNCHANGED <<pc, src, index, tokens, ast, scopes, out, last>>

\* the condition of an if has its value
ifBranch ==
    /\ Returned("IfCondition")
    /\ LET f == Head(kont) IN
       IF Truthy(ctl.val)
       THEN /\ kont' = Replace(Frame("IfBody", f.node, f.scope))
            /\ ctl' = Exec(f.node.body, f.scope)
       ELSE IF f.node.elseBody.kind # "null"
       THEN /\ kont' = Replace(Frame("IfBody", f.node, f.scope))
            /\ ctl' = Exec(f.node.elseBody, f.scope)
       ELSE /\ kont' = Tail(kont)
            /\ ctl' = Ret(Undefined)
    /\ UNCHANGED <<pc, src, index, tokens, ast, scopes, out, last>>

\* the body or the else-body of an if has run
ifDone ==
    /\ Returned("IfBody")
    /\ kont' = Tail(kont)
    /\ ctl' = Ret(Undefined)
    /\ UNCHANGED <<pc, src, index, tokens, ast, scopes, out, last>>

executeWhileStatement ==
    /\ Entering("WhileStatement")
    /\ kont' = Push(Frame("WhileCondition", ctl.node, ctl.scope))
    /\ ctl' = Exec(ctl.node.condition, ctl.scope)
    /\ UNCHANGED <<pc, src, index, tokens, ast, scopes, out, last>>

\* the condition of a while has its value
whileTest ==
    /\ Returned("WhileCondition")
    /\ LET f == Head(kont) IN
       IF Truthy(ctl.val)
       THEN /\ kont' = Replace(Frame("WhileBody", f.node, f.scope))
            /\ ctl' = Exec(f.node.body, f.scope)
       ELSE /\ kont' = Tail(kont)
            /\ ctl' = Ret(Undefined)
    /\ UNCHANGED <<pc, src, index, tokens, ast, scopes, out, last>>

\* the body of a while has run: the condition is evaluated again
whileRepeat ==
    /\ Returned("WhileBody")
    /\ LET f == Head(kont) IN
       /\ kont' = Replace(Frame("WhileCondition", f.node, f.scope))
       /\ ctl' = Exec(f.node.condition, f.scope)
    /\ UNCHANGED <<pc, src, index, tokens, ast, scopes, out, last>>

executeCallStatement ==
    /\ Entering("CallStatement")
    /\ kont' = Push(Frame("CallStatement", ctl.node, ctl.scope))
    /\ ctl' = Exec(ctl.node.expr, ctl.scope)
    /\ UNCHANGED <<pc, src, index, tokens, ast, scopes, out, last>>

callStatementDone ==
    /\ Returned("CallStatement")
    /\ kont' = Tail(kont)
    /\ ctl' = Ret(Undefined)
    /\ UNCHANGED <<pc, src, index, tokens, ast, scopes, out, last>>

executeReturnStatement ==
    /\ Entering("ReturnStatement")
    /\ kont' = Push(Frame("Return", ctl.node, ctl.scope))
    /\ ctl' = Exec(ctl.node.expr, ctl.scope)
    /\ UNCHANGED <<pc, src, index, tokens, ast, scopes, out, last>>

\* throw new TSFuncRetError(retVal)
returnThrow ==
    /\ Returned("Return")
    /\ kont' = Tail(kont)
    /\ ctl' = Throw(TSFuncRetError(ctl.val))
    /\ UNCHANGED <<pc, src, index, tokens, ast, scopes, out, last>>

\* executeBinaryExpression evaluating the right operand where the left one is
\* due (C11 fails on it)
executeBinaryExpressionRightFirst ==
    /\ Entering("BinaryExpression")
    /\ kont' = Push(Frame("BinaryLeft", ctl.node, ctl.scope))
    /\ ctl' = Exec(ctl.node.right, ctl.scope)
    /\ UNCHANGED <<pc, src, index, tokens, ast, scopes, out, last>>

executeBinaryExpression ==
    /\ Entering("BinaryExpression")
    /\ kont' = Push(Frame("BinaryLeft", ctl.node, ctl.scope))
    /\ ctl' = Exec(ctl.node.left, ctl.scope)
    /\ UNCHANGED <<pc, src, index, tokens, ast, scopes, out, last>>

\* left has its value: const right = exec(node.right, scope)
binaryRight ==
    /\ Returned("BinaryLeft")
    /\ LET f == Head(kont) IN
       /\ kont' = Replace([Frame("BinaryRight", f.node, f.scope) EXCEPT !.val = ctl.val])
       /\ ctl' = Exec(f.node.right, f.scope)
    /\ UNCHANGED <<pc, src, index, tokens, ast, scopes, out, last>>

\* right has its value: the switch on node.operator
binaryApply ==
    /\ Returned("BinaryRight")
    /\ LET f == Head(kont) IN
       ctl' = Ret(ApplyOperator(f.node.operator, f.val, ctl.val))
    /\ kont' = Tail(kont)
    /\ UNCHANGED <<pc, src, index, tokens, ast, scopes, out, last>>

executeFuncCallExpression ==
    /\ Entering("FuncCallExpression")
    /\ kont' = Push(Frame("Callee", ctl.node, ctl.scope))
    /\ ctl' = Exec(ctl.node.func, ctl.scope)
    /\ UNCHANGED <<pc, src, index, tokens, ast, scopes, out, last>>

\* func.args: undefined unless func is a FnLiteral (read only when func is not undefined)
FuncArgs(func) == IF func.t = "fn" THEN [has |-> TRUE, names |-> func.v.args]
                  ELSE [has |-> FALSE, names |-> <<>>]

\* argVals[i], undefined past the end of the array
ArgVal(argVals, i) == IF i <= Len(argVals) THEN argVals[i] ELSE Undefined

\* the loop `funcScope.define(args[i], argVals[i])' from index i on: [err, scopes]
RECURSIVE defineParameters(_, _, _, _, _)
defineParameters(sc, funcScope, names, argVals, i) ==
    IF i > Len(names) THEN [err |-> NoError, scopes |-> sc]
    ELSE LET r == define(sc, funcScope, names[i], ArgVal(argVals, i)) IN
         IF IsOk(r) THEN defineParameters(r.scopes, funcScope, names, argVals, i + 1)
         ELSE [err |-> r.err, scopes |-> r.scopes]

\* lines 845-851, once every argument has its value: the scopes, the stack
\* (rest is the stack of the caller of this handler) and what happens next
enterFunction(func, argVals, scope, rest) ==
    LET created == create(scopes, scope)
        funcScope == Len(scopes) + 1
        args == FuncArgs(func)
        bound == defineParameters(created, funcScope, args.names, argVals, 1)
    IN  IF ~args.has
        THEN [scopes |-> created, kont |-> rest, ctl |-> Throw(TypeError)]
        ELSE IF ~IsOk(bound)
        THEN [scopes |-> bound.scopes, kont |-> rest, ctl |-> Throw(bound.err)]
        ELSE [scopes |-> bound.scopes,
              kont |-> <<[Frame("FuncBody", func.v, funcScope) EXCEPT !.val = func]>> \o rest,
              ctl |-> Exec(func.v.body, funcScope)]

\* the callee has its value: `const args = func.args', then the first argument
funcCallCallee ==
    /\ Returned("Callee")
    /\ LET f == Head(kont)
           func == ctl.val
           call == enterFunction(func, <<>>, f.scope, Tail(kont))
       IN  IF func.t = "undef"
           THEN /\ ctl' = Throw(TypeError)
                /\ kont' = Tail(kont)
                /\ scopes' = scopes
           ELSE IF f.node.args # <<>>
           THEN /\ kont' = Replace([Frame("Argument", f.node, f.scope)
                                      EXCEPT !.i = 1, !.val = func])
                /\ ctl' = Exec(f.node.args[1], f.scope)
                /\ scopes' = scopes
           ELSE /\ scopes' = call.scopes
                /\ kont' = call.kont
                /\ ctl' = call.ctl
    /\ UNCHANGED <<pc, src, index, tokens, ast, out, last>>

\* node.args.map: an argument has its value
funcCallArgument ==
    /\ Returned("Argument")
    /\ LET f == Head(kont)
           argVals == Append(f.vals, ctl.val)
           call == enterFunction(f.val, argVals, f.scope, Tail(kont))
       IN  IF f.i < Len(f.node.args)
           THEN /\ kont' = Replace([f EXCEPT !.i = f.i + 1, !.vals = argVals])
                /\ ctl' = Exec(f.node.args[f.i + 1], f.scope)
                /\ scopes' = scopes
           ELSE /\ scopes' = call.scopes
                /\ kont' = call.kont
                /\ ctl' = call.ctl
    /\ UNCHANGED <<pc, src, index, tokens, ast, out, last>>

\* exec(func.body, funcScope) returned: the handler ends without a return value
funcCallEnd ==
    /\ Returned("FuncBody")
    /\ kont' = Tail(kont)
    /\ ctl' = Ret(Undefined)
    /\ UNCHANGED <<pc, src, index, tokens, ast, scopes, out, last>>

\* the catch of executeFuncCallExpression throwing every error on, the Return
\* signal included (C12 fails on it)
funcCallCatchRethrow ==
    /\ pc = "execute" /\ ctl.m = "throw" /\ kont # <<>>
    /\ Head(kont).k = "FuncBody"
    /\ kont' = Tail(kont)
    /\ ctl' = Throw(ctl.err)
    /\ UNCHANGED <<pc, src, index, tokens, ast, scopes, out, last>>

\* catch (err): return err.value when it is not undefined, else throw err
funcCallCatch ==
    /\ pc = "execute" /\ ctl.m = "throw" /\ kont # <<>>
    /\ Head(kont).k = "FuncBody"
    /\ kont' = Tail(kont)
    /\ ctl' = IF NotUndefined(ctl.err.value) THEN Ret(ctl.err.value) ELSE Throw(ctl.err)
    /\ UNCHANGED <<pc, src, index, tokens, ast, scopes, out, last>>

\* a throw leaves a handler that has no catch
unwind ==
    /\ pc = "execute" /\ ctl.m = "throw" /\ kont # <<>>
    /\ Head(kont).k # "FuncBody"
    /\ kont' = Tail(kont)
    /\ UNCHANGED <<pc, src, index, tokens, ast, scopes, out, ctl, last>>

executeNameExpression ==
    /\ Entering("NameExpression")
    /\ LET r == get(scopes, ctl.scope, ctl.node.name) IN
       /\ ctl' = IF IsOk(r) THEN Ret(r.ret) ELSE Throw(r.err)
       /\ last' = [op |-> "get", recv |-> ctl.scope, name |-> ctl.node.name,
                   value |-> Undefined, err |-> r.err, ret |-> r.ret]
    /\ UNCHANGED <<pc, src, index, tokens, ast, scopes, out, kont>>

executeIntLiteral ==
    /\ Entering("IntLiteral")
    /\ ctl' = Ret(IntV(ctl.node.value))
    /\ UNCHANGED <<pc, src, index, tokens, ast, scopes, out, kont, last>>

executeFnLiteral ==
    /\ Entering("FnLiteral")
    /\ ctl' = Ret(FnV(ctl.node))
    /\ UNCHANGED <<pc, src, index, tokens, ast, scopes, out, kont, last>>

\* execute(ast) returns: the script ends
scriptEnd ==
    /\ pc = "execute" /\ ctl.m = "ret" /\ kont = <<>>
    /\ pc' = "done"
    /\ UNCHANGED <<src, index, tokens, ast, scopes, out, kont, ctl, last>>

\* a throw nothing catches ends the script
uncaught ==
    /\ pc = "execute" /\ ctl.m = "throw" /\ kont = <<>>
    /\ pc' = "failed"
    /\ UNCHANGED <<src, index, tokens, ast, scopes, out, kont, ctl, last>>

----------------------------------------------------------------------------
(* The script, lines 889-898: tokenize, parse, execute. *)

\* const tokens = tokenize(code): one pass of its loop, or its return
scriptTokenize ==
    /\ pc = "tokenize"
    /\ IF index > Len(src)
       THEN /\ pc' = "parse"
            /\ UNCHANGED <<index, tokens, ctl>>
       ELSE LET r == tokenizeStep(src, index, tokens) IN
            /\ tokens' = r.tokens
            /\ index' = r.idx
            /\ pc' = IF r.err.type = "none" THEN "tokenize"
                     ELSE IF r.err.type = "diverges" THEN "hung" ELSE "failed"
            /\ ctl' = IF r.err.type = "none" THEN ctl ELSE Throw(r.err)
    /\ UNCHANGED <<src, ast, scopes, out, kont, last>>

\* const ast = parse(tokens)
scriptParse ==
    /\ pc = "parse"
    /\ ast' = parse(tokens)
    /\ pc' = IF ast'.err.type = "none" THEN "execute" ELSE "failed"
    /\ ctl' = IF ast'.err.type = "none" THEN ctl ELSE Throw(ast'.err)
    /\ UNCHANGED <<src, index, tokens, scopes, out, kont, last>>

----------------------------------------------------------------------------
(* The texts the script is run on; each definition is preceded by its      *)
(* text.                                                                   *)

\* the empty text:
\*   (empty)
ProgEmpty ==
    <<>>

\* spec.md section 8, Scoping:
\*   def x = 1; { let x = 2; } print x; { def x = 3; print x; { } } print x;
ProgScoping ==
    <<"d", "e", "f", " ", "x", " ", "=", " ", "1", ";", " ", "{", " ", "l",
      "e", "t", " ", "x", " ", "=", " ", "2", ";", " ", "}", " ", "p", "r",
      "i", "n", "t", " ", "x", ";", " ", "{", " ", "d", "e", "f", " ", "x",
      " ", "=", " ", "3", ";", " ", "p", "r", "i", "n", "t", " ", "x", ";",
      " ", "{", " ", "}", " ", "}", " ", "p", "r", "i", "n", "t", " ", "x",
      ";">>

\* spec.md section 8:
\*   def x = 1; def x = 2; print x;
ProgDuplicateDef ==
    <<"d", "e", "f", " ", "x", " ", "=", " ", "1", ";", " ", "d", "e", "f",
      " ", "x", " ", "=", " ", "2", ";", " ", "p", "r", "i", "n", "t", " ",
      "x", ";">>

\* spec.md section 8:
\*   print 1; let y = 1; print 2;
ProgUndefinedLet ==
    <<"p", "r", "i", "n", "t", " ", "1", ";", " ", "l", "e", "t", " ", "y",
      " ", "=", " ", "1", ";", " ", "p", "r", "i", "n", "t", " ", "2", ";">>

\* spec.md section 8:
\*   print 2 - 3 - 4; print 1 + 2 * (3 + 4); print 8 / 4 / 2; print 1 + 1 ==
\*   2; print 3 <> 3; print 2 >= 3; print 2 > 1;
ProgArithmetic ==
    <<"p", "r", "i", "n", "t", " ", "2", " ", "-", " ", "3", " ", "-", " ",
      "4", ";", " ", "p", "r", "i", "n", "t", " ", "1", " ", "+", " ", "2",
      " ", "*", " ", "(", "3", " ", "+", " ", "4", ")", ";", " ", "p", "r",
      "i", "n", "t", " ", "8", " ", "/", " ", "4", " ", "/", " ", "2", ";",
      " ", "p", "r", "i", "n", "t", " ", "1", " ", "+", " ", "1", " ", "=",
      "=", " ", "2", ";", " ", "p", "r", "i", "n", "t", " ", "3", " ", "<",
      ">", " ", "3", ";", " ", "p", "r", "i", "n", "t", " ", "2", " ", ">",
      "=", " ", "3", ";", " ", "p", "r", "i", "n", "t", " ", "2", " ", ">",
      " ", "1", ";">>

\* a Return inside Block, If and While, returning an Integer, a Boolean and a function:
\*   def f = fn (a) => { while (1) { if (a) { { return a + 1; } } else return
\*   0; } print 99; }; def h = fn (a) => { print f(a); print 7; return 1 < 2;
\*   }; def k = fn () => { return f; }; print h(1); print h(0); def m = k();
\*   print m(4);
ProgReturnNested ==
    <<"d", "e", "f", " ", "f", " ", "=", " ", "f", "n", " ", "(", "a", ")",
      " ", "=", ">", " ", "{", " ", "w", "h", "i", "l", "e", " ", "(", "1",
      ")", " ", "{", " ", "i", "f", " ", "(", "a", ")", " ", "{", " ", "{",
      " ", "r", "e", "t", "u", "r", "n", " ", "a", " ", "+", " ", "1", ";",
      " ", "}", " ", "}", " ", "e", "l", "s", "e", " ", "r", "e", "t", "u",
      "r", "n", " ", "0", ";", " ", "}", " ", "p", "r", "i", "n", "t", " ",
      "9", "9", ";", " ", "}", ";", " ", "d", "e", "f", " ", "h", " ", "=",
      " ", "f", "n", " ", "(", "a", ")", " ", "=", ">", " ", "{", " ", "p",
      "r", "i", "n", "t", " ", "f", "(", "a", ")", ";", " ", "p", "r", "i",
      "n", "t", " ", "7", ";", " ", "r", "e", "t", "u", "r", "n", " ", "1",
      " ", "<", " ", "2", ";", " ", "}", ";", " ", "d", "e", "f", " ", "k",
      " ", "=", " ", "f", "n", " ", "(", ")", " ", "=", ">", " ", "{", " ",
      "r", "e", "t", "u", "r", "n", " ", "f", ";", " ", "}", ";", " ", "p",
      "r", "i", "n", "t", " ", "h", "(", "1", ")", ";", " ", "p", "r", "i",
      "n", "t", " ", "h", "(", "0", ")", ";", " ", "d", "e", "f", " ", "m",
      " ", "=", " ", "k", "(", ")", ";", " ", "p", "r", "i", "n", "t", " ",
      "m", "(", "4", ")", ";">>

\* a Return that carries the result of a call that returned nothing:
\*   def g = fn () => { }; def f = fn () => { print 1; return g(); }; def h =
\*   fn () => { call f(); print 2; return 3; }; print h(); print 4;
ProgReturnNoValue ==
    <<"d", "e", "f", " ", "g", " ", "=", " ", "f", "n", " ", "(", ")", " ",
      "=", ">", " ", "{", " ", "}", ";", " ", "d", "e", "f", " ", "f", " ",
      "=", " ", "f", "n", " ", "(", ")", " ", "=", ">", " ", "{", " ", "p",
      "r", "i", "n", "t", " ", "1", ";", " ", "r", "e", "t", "u", "r", "n",
      " ", "g", "(", ")", ";", " ", "}", ";", " ", "d", "e", "f", " ", "h",
      " ", "=", " ", "f", "n", " ", "(", ")", " ", "=", ">", " ", "{", " ",
      "c", "a", "l", "l", " ", "f", "(", ")", ";", " ", "p", "r", "i", "n",
      "t", " ", "2", ";", " ", "r", "e", "t", "u", "r", "n", " ", "3", ";",
      " ", "}", ";", " ", "p", "r", "i", "n", "t", " ", "h", "(", ")", ";",
      " ", "p", "r", "i", "n", "t", " ", "4", ";">>

\* def of a name bound to the result of a call that returned nothing:
\*   def g = fn () => { }; def x = g(); def x = 2; print x;
ProgRedefineNoValue ==
    <<"d", "e", "f", " ", "g", " ", "=", " ", "f", "n", " ", "(", ")", " ",
      "=", ">", " ", "{", " ", "}", ";", " ", "d", "e", "f", " ", "x", " ",
      "=", " ", "g", "(", ")", ";", " ", "d", "e", "f", " ", "x", " ", "=",
      " ", "2", ";", " ", "p", "r", "i", "n", "t", " ", "x", ";">>

\* get and set of such a name:
\*   def g = fn () => { }; def x = 1; { def x = g(); print x; let x = 2; }
\*   print x; def y = g(); print 5; print y;
ProgGetNoValue ==
    <<"d", "e", "f", " ", "g", " ", "=", " ", "f", "n", " ", "(", ")", " ",
      "=", ">", " ", "{", " ", "}", ";", " ", "d", "e", "f", " ", "x", " ",
      "=", " ", "1", ";", " ", "{", " ", "d", "e", "f", " ", "x", " ", "=",
      " ", "g", "(", ")", ";", " ", "p", "r", "i", "n", "t", " ", "x", ";",
      " ", "l", "e", "t", " ", "x", " ", "=", " ", "2", ";", " ", "}", " ",
      "p", "r", "i", "n", "t", " ", "x", ";", " ", "d", "e", "f", " ", "y",
      " ", "=", " ", "g", "(", ")", ";", " ", "p", "r", "i", "n", "t", " ",
      "5", ";", " ", "p", "r", "i", "n", "t", " ", "y", ";">>

\* free variables of a body, spec.md section 9 (a):
\*   def x = 1; def f = fn () => { print x; let x = x + 1; }; def h = fn ()
\*   => { def x = 10; call f(); print x; }; call h(); print x; call f();
\*   print x; def mk = fn () => { def y = 5; return fn () => { return y; };
\*   }; def c = mk(); print c();
ProgCallSite ==
    <<"d", "e", "f", " ", "x", " ", "=", " ", "1", ";", " ", "d", "e", "f",
      " ", "f", " ", "=", " ", "f", "n", " ", "(", ")", " ", "=", ">", " ",
      "{", " ", "p", "r", "i", "n", "t", " ", "x", ";", " ", "l", "e", "t",
      " ", "x", " ", "=", " ", "x", " ", "+", " ", "1", ";", " ", "}", ";",
      " ", "d", "e", "f", " ", "h", " ", "=", " ", "f", "n", " ", "(", ")",
      " ", "=", ">", " ", "{", " ", "d", "e", "f", " ", "x", " ", "=", " ",
      "1", "0", ";", " ", "c", "a", "l", "l", " ", "f", "(", ")", ";", " ",
      "p", "r", "i", "n", "t", " ", "x", ";", " ", "}", ";", " ", "c", "a",
      "l", "l", " ", "h", "(", ")", ";", " ", "p", "r", "i", "n", "t", " ",
      "x", ";", " ", "c", "a", "l", "l", " ", "f", "(", ")", ";", " ", "p",
      "r", "i", "n", "t", " ", "x", ";", " ", "d", "e", "f", " ", "m", "k",
      " ", "=", " ", "f", "n", " ", "(", ")", " ", "=", ">", " ", "{", " ",
      "d", "e", "f", " ", "y", " ", "=", " ", "5", ";", " ", "r", "e", "t",
      "u", "r", "n", " ", "f", "n", " ", "(", ")", " ", "=", ">", " ", "{",
      " ", "r", "e", "t", "u", "r", "n", " ", "y", ";", " ", "}", ";", " ",
      "}", ";", " ", "d", "e", "f", " ", "c", " ", "=", " ", "m", "k", "(",
      ")", ";", " ", "p", "r", "i", "n", "t", " ", "c", "(", ")", ";">>

\* a free variable whose nearest binding at the call site holds no value:
\*   def x = 1; def g = fn () => { }; def f = fn () => { print x; let x = 5;
\*   }; { def x = g(); call f(); } print x;
ProgCallSiteNoValue ==
    <<"d", "e", "f", " ", "x", " ", "=", " ", "1", ";", " ", "d", "e", "f",
      " ", "g", " ", "=", " ", "f", "n", " ", "(", ")", " ", "=", ">", " ",
      "{", " ", "}", ";", " ", "d", "e", "f", " ", "f", " ", "=", " ", "f",
      "n", " ", "(", ")", " ", "=", ">", " ", "{", " ", "p", "r", "i", "n",
      "t", " ", "x", ";", " ", "l", "e", "t", " ", "x", " ", "=", " ", "5",
      ";", " ", "}", ";", " ", "{", " ", "d", "e", "f", " ", "x", " ", "=",
      " ", "g", "(", ")", ";", " ", "c", "a", "l", "l", " ", "f", "(", ")",
      ";", " ", "}", " ", "p", "r", "i", "n", "t", " ", "x", ";">>

\* parameters, with more and with fewer arguments than parameters:
\*   def a = 5; def f = fn (a, b) => { print a; print b; let a = b; print a;
\*   }; call f(1, 2, 3); def q = fn (a) => { print a; }; call q(); call f(1);
ProgParameters ==
    <<"d", "e", "f", " ", "a", " ", "=", " ", "5", ";", " ", "d", "e", "f",
      " ", "f", " ", "=", " ", "f", "n", " ", "(", "a", ",", " ", "b", ")",
      " ", "=", ">", " ", "{", " ", "p", "r", "i", "n", "t", " ", "a", ";",
      " ", "p", "r", "i", "n", "t", " ", "b", ";", " ", "l", "e", "t", " ",
      "a", " ", "=", " ", "b", ";", " ", "p", "r", "i", "n", "t", " ", "a",
      ";", " ", "}", ";", " ", "c", "a", "l", "l", " ", "f", "(", "1", ",",
      " ", "2", ",", " ", "3", ")", ";", " ", "d", "e", "f", " ", "q", " ",
      "=", " ", "f", "n", " ", "(", "a", ")", " ", "=", ">", " ", "{", " ",
      "p", "r", "i", "n", "t", " ", "a", ";", " ", "}", ";", " ", "c", "a",
      "l", "l", " ", "q", "(", ")", ";", " ", "c", "a", "l", "l", " ", "f",
      "(", "1", ")", ";">>

\* a parameter name given twice:
\*   def f = fn (a, a) => { print a; }; call f(1, 2);
ProgDuplicateParameter ==
    <<"d", "e", "f", " ", "f", " ", "=", " ", "f", "n", " ", "(", "a", ",",
      " ", "a", ")", " ", "=", ">", " ", "{", " ", "p", "r", "i", "n", "t",
      " ", "a", ";", " ", "}", ";", " ", "c", "a", "l", "l", " ", "f", "(",
      "1", ",", " ", "2", ")", ";">>

\* a call whose callee is an Integer:
\*   def p = fn (n) => { print n; return n; }; print 0; call 5(p(1), p(2));
\*   print 3;
ProgNotCallableInteger ==
    <<"d", "e", "f", " ", "p", " ", "=", " ", "f", "n", " ", "(", "n", ")",
      " ", "=", ">", " ", "{", " ", "p", "r", "i", "n", "t", " ", "n", ";",
      " ", "r", "e", "t", "u", "r", "n", " ", "n", ";", " ", "}", ";", " ",
      "p", "r", "i", "n", "t", " ", "0", ";", " ", "c", "a", "l", "l", " ",
      "5", "(", "p", "(", "1", ")", ",", " ", "p", "(", "2", ")", ")", ";",
      " ", "p", "r", "i", "n", "t", " ", "3", ";">>

\* a call whose callee is a Boolean:
\*   def p = fn (n) => { print n; return n; }; def f = fn () => { call (1 <
\*   2)(); }; call f(); print 3;
ProgNotCallableBoolean ==
    <<"d", "e", "f", " ", "p", " ", "=", " ", "f", "n", " ", "(", "n", ")",
      " ", "=", ">", " ", "{", " ", "p", "r", "i", "n", "t", " ", "n", ";",
      " ", "r", "e", "t", "u", "r", "n", " ", "n", ";", " ", "}", ";", " ",
      "d", "e", "f", " ", "f", " ", "=", " ", "f", "n", " ", "(", ")", " ",
      "=", ">", " ", "{", " ", "c", "a", "l", "l", " ", "(", "1", " ", "<",
      " ", "2", ")", "(", ")", ";", " ", "}", ";", " ", "c", "a", "l", "l",
      " ", "f", "(", ")", ";", " ", "p", "r", "i", "n", "t", " ", "3", ";">>

\* a call whose callee is the result of a call that returned nothing:
\*   def p = fn (n) => { print n; return n; }; def g = fn () => { }; call
\*   (g())(p(1)); print 3;
ProgNotCallableNoValue ==
    <<"d", "e", "f", " ", "p", " ", "=", " ", "f", "n", " ", "(", "n", ")",
      " ", "=", ">", " ", "{", " ", "p", "r", "i", "n", "t", " ", "n", ";",
      " ", "r", "e", "t", "u", "r", "n", " ", "n", ";", " ", "}", ";", " ",
      "d", "e", "f", " ", "g", " ", "=", " ", "f", "n", " ", "(", ")", " ",
      "=", ">", " ", "{", " ", "}", ";", " ", "c", "a", "l", "l", " ", "(",
      "g", "(", ")", ")", "(", "p", "(", "1", ")", ")", ";", " ", "p", "r",
      "i", "n", "t", " ", "3", ";">>

\* an if without else as the last statement:
\*   def x = 1; if (x) print x;
ProgIfLast ==
    <<"d", "e", "f", " ", "x", " ", "=", " ", "1", ";", " ", "i", "f", " ",
      "(", "x", ")", " ", "p", "r", "i", "n", "t", " ", "x", ";">>

\* an if with else as the last statement:
\*   if (0) print 1; else print 2;
ProgIfElseLast ==
    <<"i", "f", " ", "(", "0", ")", " ", "p", "r", "i", "n", "t", " ", "1",
      ";", " ", "e", "l", "s", "e", " ", "p", "r", "i", "n", "t", " ", "2",
      ";">>

\* a character outside the language:
\*   print 1 ? 2;
ProgUnknownChar ==
    <<"p", "r", "i", "n", "t", " ", "1", " ", "?", " ", "2", ";">>

\* a text that ends in a letter:
\*   def x = 1; print x
ProgLetterLast ==
    <<"d", "e", "f", " ", "x", " ", "=", " ", "1", ";", " ", "p", "r", "i",
      "n", "t", " ", "x">>

\* a return outside every call:
\*   print 1; return 2; print 3;
ProgReturnTopLevel ==
    <<"p", "r", "i", "n", "t", " ", "1", ";", " ", "r", "e", "t", "u", "r",
      "n", " ", "2", ";", " ", "p", "r", "i", "n", "t", " ", "3", ";">>

\* spec.md section 5, evaluation order:
\*   def p = fn (n) => { print n; return n; }; def add = fn (a, b) => { print
\*   0; return a + b; }; print p(1) - p(2) * p(3); print add(p(4), p(5) +
\*   p(6));
ProgEvaluationOrder ==
    <<"d", "e", "f", " ", "p", " ", "=", " ", "f", "n", " ", "(", "n", ")",
      " ", "=", ">", " ", "{", " ", "p", "r", "i", "n", "t", " ", "n", ";",
      " ", "r", "e", "t", "u", "r", "n", " ", "n", ";", " ", "}", ";", " ",
      "d", "e", "f", " ", "a", "d", "d", " ", "=", " ", "f", "n", " ", "(",
      "a", ",", " ", "b", ")", " ", "=", ">", " ", "{", " ", "p", "r", "i",
      "n", "t", " ", "0", ";", " ", "r", "e", "t", "u", "r", "n", " ", "a",
      " ", "+", " ", "b", ";", " ", "}", ";", " ", "p", "r", "i", "n", "t",
      " ", "p", "(", "1", ")", " ", "-", " ", "p", "(", "2", ")", " ", "*",
      " ", "p", "(", "3", ")", ";", " ", "p", "r", "i", "n", "t", " ", "a",
      "d", "d", "(", "p", "(", "4", ")", ",", " ", "p", "(", "5", ")", " ",
      "+", " ", "p", "(", "6", ")", ")", ";">>

\* the decimal digit of n, 0 <= n <= 9
DigitChar(n) == <<"0", "1", "2", "3", "4", "5", "6", "7", "8", "9">>[n + 1]

\* src/README.md, the loop, summing 1..n:
\*   def sum = 0; def i = 1; while (i <= n) { let sum = sum + i; let i = i +
\*   1; } print sum;
ProgLoop(n) ==
    <<"d", "e", "f", " ", "s", "u", "m", " ", "=", " ", "0", ";", " ", "d",
      "e", "f", " ", "i", " ", "=", " ", "1", ";", " ", "w", "h", "i", "l",
      "e", " ", "(", "i", " ", "<", "=", " ">>
    \o <<DigitChar(n)>> \o
    <<")", " ", "{", " ", "l", "e", "t", " ", "s", "u", "m", " ", "=", " ",
      "s", "u", "m", " ", "+", " ", "i", ";", " ", "l", "e", "t", " ", "i",
      " ", "=", " ", "i", " ", "+", " ", "1", ";", " ", "}", " ", "p", "r",
      "i", "n", "t", " ", "s", "u", "m", ";">>

\* src/README.md, fib:
\*   def p = fn (n) => { print n; }; def fib = fn (n) => { if (n < 2) return
\*   n; return fib(n - 1) + fib(n - 2); }; call p(fib(n));
ProgFib(n) ==
    <<"d", "e", "f", " ", "p", " ", "=", " ", "f", "n", " ", "(", "n", ")",
      " ", "=", ">", " ", "{", " ", "p", "r", "i", "n", "t", " ", "n", ";",
      " ", "}", ";", " ", "d", "e", "f", " ", "f", "i", "b", " ", "=", " ",
      "f", "n", " ", "(", "n", ")", " ", "=", ">", " ", "{", " ", "i", "f",
      " ", "(", "n", " ", "<", " ", "2", ")", " ", "r", "e", "t", "u", "r",
      "n", " ", "n", ";", " ", "r", "e", "t", "u", "r", "n", " ", "f", "i",
      "b", "(", "n", " ", "-", " ", "1", ")", " ", "+", " ", "f", "i", "b",
      "(", "n", " ", "-", " ", "2", ")", ";", " ", "}", ";", " ", "c", "a",
      "l", "l", " ", "p", "(", "f", "i", "b", "(">>
    \o <<DigitChar(n)>> \o
    <<")", ")", ";">>

\* a def inside a block of a name the enclosing scope binds:
\*   def x = 1; { def x = 2; } print x;
ProgBlockDef ==
    <<"d", "e", "f", " ", "x", " ", "=", " ", "1", ";", " ", "{", " ", "d",
      "e", "f", " ", "x", " ", "=", " ", "2", ";", " ", "}", " ", "p", "r",
      "i", "n", "t", " ", "x", ";">>

\* words that are keywords but for their letter case or their length:
\*   def If = 1; def printx = If + 1; def x = 3; let x = x + printx; print x; print If;
ProgWords ==
    <<"d", "e", "f", " ", "I", "f", " ", "=", " ", "1", ";", " ", "d", "e",
      "f", " ", "p", "r", "i", "n", "t", "x", " ", "=", " ", "I", "f", " ",
      "+", " ", "1", ";", " ", "d", "e", "f", " ", "x", " ", "=", " ", "3",
      ";", " ", "l", "e", "t", " ", "x", " ", "=", " ", "x", " ", "+", " ",
      "p", "r", "i", "n", "t", "x", ";", " ", "p", "r", "i", "n", "t", " ",
      "x", ";", " ", "p", "r", "i", "n", "t", " ", "I", "f", ";">>

\* a name that every plain object inherits a member of:
\*   def constructor = 1; print constructor;
ProgPrototypeWord ==
    <<"d", "e", "f", " ", "c", "o", "n", "s", "t", "r", "u", "c", "t", "o",
      "r", " ", "=", " ", "1", ";", " ", "p", "r", "i", "n", "t", " ", "c",
      "o", "n", "s", "t", "r", "u", "c", "t", "o", "r", ";">>

\* the binary operators of an expression, by level: relational, additive,
\* multiplicative
ExpressionOperators == {"==", "<>", ">=", "<=", ">", "<", "+", "-", "*", "/"}

Level(operator) ==
    IF operator \in {"+", "-"} THEN 2 ELSE IF operator \in {"*", "/"} THEN 3 ELSE 1

\* the expressions of n binary operators over the integer literals first,
\* first + 1, ... from left to right
RECURSIVE ExpressionsOf(_, _)
ExpressionsOf(n, first) ==
    IF n = 0 THEN {IntLiteral(first)}
    ELSE UNION {{BinaryExpression(t[1], t[2], t[3]) :
                    t \in ExpressionsOf(k, first) \X ExpressionOperators
                          \X ExpressionsOf(n - 1 - k, first + k + 1)} :
                k \in 0..(n - 1)}

Expressions == UNION {ExpressionsOf(n, 1) : n \in 1..MaxOperators}

OperatorText(operator) ==
    IF operator = "==" THEN <<"=", "=">>
    ELSE IF operator = "<>" THEN <<"<", ">">>
    ELSE IF operator = ">=" THEN <<">", "=">>
    ELSE IF operator = "<=" THEN <<"<", "=">>
    ELSE <<operator>>

Parenthesized(text) == <<"(">> \o text \o <<")">>

\* the text of an expression, with parentheses only around a left operand of a
\* lower level and a right operand of a lower or the same level
RECURSIVE ExpressionText(_)
ExpressionText(e) ==
    IF e.kind = "IntLiteral" THEN <<DigitChar(e.value)>>
    ELSE LET left == ExpressionText(e.left)
             right == ExpressionText(e.right)
             lower(operand, level) ==
                 operand.kind = "BinaryExpression" /\ Level(operand.operator) < level
         IN  (IF lower(e.left, Level(e.operator)) THEN Parenthesized(left) ELSE left)
             \o <<" ">> \o OperatorText(e.operator) \o <<" ">> \o
             (IF lower(e.right, Level(e.operator) + 1) THEN Parenthesized(right) ELSE right)

\* the text `print <expression>;'
ProgExpression(e) == <<"p", "r", "i", "n", "t", " ">> \o ExpressionText(e) \o <<";">>

\* the texts of the expressions, each with its expression
ExpressionPrograms == {<<ProgExpression(e), e>> : e \in Expressions}

ExpressionTexts == {p[1] : p \in ExpressionPrograms}

Programs ==
    {ProgEmpty, ProgScoping, ProgDuplicateDef, ProgUndefinedLet,
     ProgArithmetic, ProgReturnNested, ProgReturnNoValue,
     ProgRedefineNoValue, ProgGetNoValue, ProgCallSite, ProgCallSiteNoValue,
     ProgParameters, ProgDuplicateParameter, ProgNotCallableInteger,
     ProgNotCallableBoolean, ProgNotCallableNoValue, ProgIfLast,
     ProgIfElseLast, ProgUnknownChar, ProgLetterLast, ProgReturnTopLevel,
     ProgEvaluationOrder, ProgBlockDef, ProgWords,
     ProgPrototypeWord}
    \cup {ProgLoop(n) : n \in 0..MaxLoop}
    \cup {ProgFib(n) : n \in 0..MaxFib}
    \cup ExpressionTexts

----------------------------------------------------------------------------
(* The whole script on one of the texts. *)

Init ==
    /\ pc = "tokenize"
    /\ src \in Programs
    /\ index = 1
    /\ tokens = <<>>
    /\ ast = [err |-> NoError, node |-> Null]
    /\ scopes = <<>>
    /\ out = <<>>
    /\ kont = <<>>
    /\ ctl = IdleCtl
    /\ last = NoOp

Next ==
    \/ scriptTokenize
    \/ scriptParse
    \/ execute
    \/ executeProgram
    \/ executeBlockStatement
    \/ forEach
    \/ executePrintStatement
    \/ printLog
    \/ executeDefStatement
    \/ defDefine
    \/ executeLetStatement
    \/ letSet
    \/ executeIfStatement
    \/ ifBranch
    \/ ifDone
    \/ executeWhileStatement
    \/ whileTest
    \/ whileRepeat
    \/ executeCallStatement
    \/ callStatementDone
    \/ executeReturnStatement
    \/ returnThrow
    \/ executeBinaryExpression
    \/ binaryRight
    \/ binaryApply
    \/ executeFuncCallExpression
    \/ funcCallCallee
    \/ funcCallArgument
    \/ funcCallEnd
    \/ funcCallCatch
    \/ unwind
    \/ executeNameExpression
    \/ executeIntLiteral
    \/ executeFnLiteral
    \/ scriptEnd
    \/ uncaught

Spec == Init /\ [][Next]_vars

\* the steps of execute(ast), line 898
Execute ==
    \/ execute
    \/ executeProgram
    \/ executeBlockStatement
    \/ forEach
    \/ executePrintStatement
    \/ printLog
    \/ executeDefStatement
    \/ defDefine
    \/ executeLetStatement
    \/ letSet
    \/ executeIfStatement
    \/ ifBranch
    \/ ifDone
    \/ executeWhileStatement
    \/ whileTest
    \/ whileRepeat
    \/ executeCallStatement
    \/ callStatementDone
    \/ executeReturnStatement
    \/ returnThrow
    \/ executeBinaryExpression
    \/ binaryRight
    \/ binaryApply
    \/ executeFuncCallExpression
    \/ funcCallCallee
    \/ funcCallArgument
    \/ funcCallEnd
    \/ funcCallCatch
    \/ unwind
    \/ executeNameExpression
    \/ executeIntLiteral
    \/ executeFnLiteral
    \/ scriptEnd
    \/ uncaught

\* execute is one thread that runs until it returns or throws: while it can
\* take a step it takes one
SpecFair == Spec /\ WF_vars(Execute)

----------------------------------------------------------------------------
(* Scope operations on their own: any receiver, name and value a program   *)
(* can hand them.                                                          *)

ScopeNames == {<<"x">>, <<"y">>}
ScopeValues == <<IntV(0), Undefined>>

InitScope ==
    /\ pc = "scope"
    /\ src = <<>>
    /\ index = 1
    /\ tokens = <<>>
    /\ ast = [err |-> NoError, node |-> Null]
    /\ scopes = global
    /\ out = <<>>
    /\ kont = <<>>
    /\ ctl = IdleCtl
    /\ last = NoOp

ScopeCreate ==
    /\ pc = "scope"
    /\ Len(scopes) < MaxScopes
    /\ \E s \in 1..Len(scopes) :
        /\ scopes' = create(scopes, s)
        /\ last' = [NoOp EXCEPT !.op = "create", !.recv = s]
    /\ UNCHANGED <<pc, src, index, tokens, ast, out, kont, ctl>>

ScopeDefine ==
    /\ pc = "scope"
    /\ \E s \in 1..Len(scopes), name \in ScopeNames, i \in 1..Len(ScopeValues) :
        LET r == define(scopes, s, name, ScopeValues[i]) IN
        /\ scopes' = r.scopes
        /\ last' = [op |-> "define", recv |-> s, name |-> name, value |-> ScopeValues[i],
                    err |-> r.err, ret |-> r.ret]
    /\ UNCHANGED <<pc, src, index, tokens, ast, out, kont, ctl>>

ScopeSet ==
    /\ pc = "scope"
    /\ \E s \in 1..Len(scopes), name \in ScopeNames, i \in 1..Len(ScopeValues) :
        LET r == set(scopes, s, name, ScopeValues[i]) IN
        /\ scopes' = r.scopes
        /\ last' = [op |-> "set", recv |-> s, name |-> name, value |-> ScopeValues[i],
                    err |-> r.err, ret |-> r.ret]
    /\ UNCHANGED <<pc, src, index, tokens, ast, out, kont, ctl>>

ScopeGet ==
    /\ pc = "scope"
    /\ \E s \in 1..Len(scopes), name \in ScopeNames :
        LET r == get(scopes, s, name) IN
        /\ scopes' = r.scopes
        /\ last' = [op |-> "get", recv |-> s, name |-> name, value |-> Undefined,
                    err |-> r.err, ret |-> r.ret]
    /\ UNCHANGED <<pc, src, index, tokens, ast, out, kont, ctl>>

NextScope == ScopeCreate \/ ScopeDefine \/ ScopeSet \/ ScopeGet

SpecScope == InitScope /\ [][NextScope]_vars

----------------------------------------------------------------------------
(* The claims about Scope, stated on the name -> value mapping itself: a   *)
(* scope binds a name when the name is a key of its own mapping, whatever  *)
(* the value.                                                              *)

Binds(sc, s, name) == name \in DOMAIN sc[s].objects

\* the nearest scope on the chain from s to the root that binds name, 0 if none
RECURSIVE NearestBinding(_, _, _)
NearestBinding(sc, s, name) ==
    IF Binds(sc, s, name) THEN s
    ELSE IF sc[s].parent # 0 THEN NearestBinding(sc, sc[s].parent, name)
    ELSE 0

Failed(op) == op.err.type # "none"

\* C2: define(name, value) fails (DuplicateDefinition) exactly when name is
\* already a key of the receiver's own mapping, whatever its value and whatever
\* the ancestors bind; otherwise it inserts the binding in the receiver and
\* changes no other scope.
C2_DefineFailsIffOwnBinding ==
    [][last'.op = "define" =>
        LET s == last'.recv
            n == last'.name
        IN  /\ Failed(last') <=> Binds(scopes, s, n)
            /\ Failed(last') => scopes' = scopes
            /\ ~Failed(last') =>
                  scopes' = [scopes EXCEPT ![s].objects = ObjPut(@, n, last'.value)]
    ]_vars

\* C3: set(name, value), when some scope on the chain from the receiver to the
\* root binds name, replaces the value in the nearest such scope only: no name
\* is added to any mapping and every other binding keeps its value.
C3_SetReplacesNearestBinding ==
    [][(last'.op = "set" /\ NearestBinding(scopes, last'.recv, last'.name) # 0) =>
        LET b == NearestBinding(scopes, last'.recv, last'.name) IN
        /\ ~Failed(last')
        /\ scopes' = [scopes EXCEPT ![b].objects[last'.name] = last'.value]
    ]_vars

\* C4: get(name) and set(name, v) fail (UndefinedName) exactly when no scope on
\* the chain from the receiver to the root binds name; when one does, get
\* returns the value of the nearest binding, NoValue included.
C4_GetSetFailIffUnbound ==
    [][last'.op \in {"get", "set"} =>
        LET b == NearestBinding(scopes, last'.recv, last'.name) IN
        /\ Failed(last') <=> b = 0
        /\ (last'.op = "get" /\ b # 0) => last'.ret = scopes[b].objects[last'.name]
    ]_vars

----------------------------------------------------------------------------
(* The claims about execute, stated on the steps of the evaluator. *)

\* the scopes of the chain from s that are nearer than scope upTo
RECURSIVE Nearer(_, _, _)
Nearer(sc, s, upTo) ==
    IF s = 0 \/ s = upTo THEN {} ELSE {s} \cup Nearer(sc, sc[s].parent, upTo)

BoundNames(sc, s) == DOMAIN sc[s].objects

\* the calls of user functions whose body is running, innermost first
RunningCalls == SelectSeq(kont, LAMBDA f : f.k = "FuncBody")

\* a call has the values of its callee and of all its arguments
CallReady ==
    \/ Returned("Callee") /\ ctl.val.t # "undef" /\ Head(kont).node.args = <<>>
    \/ Returned("Argument") /\ Head(kont).i = Len(Head(kont).node.args)

CallFunc == IF Head(kont).k = "Callee" THEN ctl.val ELSE Head(kont).val
CallArgVals == IF Head(kont).k = "Callee" THEN <<>> ELSE Append(Head(kont).vals, ctl.val)

\* C1: a Return signal that reaches a function call is caught there, whatever
\* value it carries (NoValue included): the call returns that value and the
\* rest of the body is skipped; below the call it passes Block, If and While
\* unchanged.
C1_ReturnCaughtByNearestCall ==
    [][(pc = "execute" /\ ctl.m = "throw" /\ ctl.err.type = "TSFuncRetError"
        /\ kont # <<>>) =>
        /\ kont' = Tail(kont)
        /\ IF Head(kont).k = "FuncBody"
           THEN ctl' = Ret(ctl.err.value)
           ELSE ctl' = ctl
    ]_vars

\* C5: a Block runs its statements in a fresh child of the current scope; while
\* it runs, every scope that existed before it keeps its set of bound names and
\* only a let changes a value in it; `def x = 1; { def x = 2; } print x;' prints 1.
C5_BlockKeepsOuterNames ==
    [][/\ Entering("BlockStatement") =>
            /\ scopes' = Append(scopes, NewScope(ctl.scope))
            /\ ctl'.m = "exec" =>
                  /\ ctl'.scope = Len(scopes')
                  /\ Head(kont').k = "Block" /\ Head(kont').scope = Len(scopes')
       /\ (Returned("Block") /\ ctl'.m = "exec") => ctl'.scope = Head(kont).scope
       /\ \A k \in 1..Len(kont) :
            kont[k].k = "Block" =>
                \A s \in 1..(kont[k].scope - 1) :
                    /\ BoundNames(scopes', s) = BoundNames(scopes, s)
                    /\ scopes'[s] # scopes[s] => Returned("Let")
       /\ (src = ProgBlockDef /\ pc' = "done") => out' = <<IntV(1)>>
    ]_vars

\* C5: the block of `def x = 1; { def x = 2; } print x;' has run: its scope binds
\* x to 2, the global scope still binds x to 1, and 1 was printed
C5_Witness ==
    /\ src = ProgBlockDef /\ pc = "done" /\ out = <<IntV(1)>>
    /\ Len(scopes) = 2 /\ scopes[2].parent = 1
    /\ scopes[1].objects[<<"x">>] = IntV(1)
    /\ scopes[2].objects[<<"x">>] = IntV(2)

\* C6: the body of a call runs in a new scope whose parent is the scope of the
\* call site; a name that no scope of the body binds resolves to the nearest
\* binding visible from the call site, and a let on it replaces that binding.
C6_FreeVariablesResolveAtCallSite ==
    [][/\ (CallReady /\ CallFunc.t = "fn" /\ ctl'.m = "exec") =>
            /\ Len(scopes') = Len(scopes) + 1
            /\ scopes'[Len(scopes')].parent = Head(kont).scope
            /\ ctl'.scope = Len(scopes')
       /\ (RunningCalls # <<>> /\ (Entering("NameExpression") \/ Returned("Let"))) =>
            LET funcScope == Head(RunningCalls).scope
                from == IF ctl.m = "exec" THEN ctl.scope ELSE Head(kont).scope
                name == IF ctl.m = "exec" THEN ctl.node.name ELSE Head(kont).node.id
                free == \A s \in Nearer(scopes, from, scopes[funcScope].parent) :
                            ~Binds(scopes, s, name)
                b == NearestBinding(scopes, scopes[funcScope].parent, name)
            IN  free =>
                  /\ Failed(last') <=> b = 0
                  /\ (b # 0 /\ ctl.m = "exec") => ctl' = Ret(scopes[b].objects[name])
                  /\ (b # 0 /\ ctl.m = "ret") =>
                        scopes' = [scopes EXCEPT ![b].objects[name] = ctl.val]
    ]_vars

\* C7: a call binds each parameter in its new scope, the i-th to the i-th
\* argument value and to NoValue when the call has fewer arguments; in the body
\* a reference to a parameter that no nearer scope binds yields that binding's
\* value and does not fail.
C7_ParametersResolveInCallScope ==
    [][/\ (CallReady /\ CallFunc.t = "fn"
           /\ \A i, j \in 1..Len(CallFunc.v.args) :
                 CallFunc.v.args[i] = CallFunc.v.args[j] => i = j) =>
            LET funcScope == Len(scopes) + 1 IN
            /\ ctl' = Exec(CallFunc.v.body, funcScope)
            /\ Len(scopes') = funcScope
            /\ BoundNames(scopes', funcScope) =
                  {CallFunc.v.args[i] : i \in 1..Len(CallFunc.v.args)}
            /\ \A i \in 1..Len(CallFunc.v.args) :
                  scopes'[funcScope].objects[CallFunc.v.args[i]] = ArgVal(CallArgVals, i)
       /\ (RunningCalls # <<>> /\ Entering("NameExpression")) =>
            LET call == Head(RunningCalls)
                name == ctl.node.name
            IN  (/\ \E i \in 1..Len(call.node.args) : call.node.args[i] = name
                 /\ \A s \in Nearer(scopes, ctl.scope, call.scope) :
                       ~Binds(scopes, s, name)) =>
                    ctl' = Ret(scopes[call.scope].objects[name])
    ]_vars

\* the texts of Programs whose tokens are no sentence of the language: one has
\* a character outside it, one lacks its last semicolon, one has a name that
\* tokenize gives no Id token for
Ungrammatical == {ProgUnknownChar, ProgLetterLast, ProgPrototypeWord}

\* C8: every text of the language is tokenized and parsed to a Program node; an
\* If without else that ends the text gives an IfStatement with no else-body.
C8_ParseAcceptsEveryProgram ==
    src \notin Ungrammatical =>
        /\ pc # "hung"
        /\ pc \notin {"tokenize", "parse"} =>
              /\ ast.err = NoError
              /\ ast.node.kind = "Program"
              /\ src = ProgIfLast =>
                    /\ Len(ast.node.body) = 2
                    /\ ast.node.body[2] =
                          IfStatement(NameExpression(<<"x">>),
                                      PrintStatement(NameExpression(<<"x">>)), Null)

\* C9: the text of every expression of at most MaxOperators operators, written
\* with the parentheses that precedence (relational < additive <
\* multiplicative) and left association make necessary and no others, parses
\* to that expression, and no two of the expressions have the same text;
\* `2 - 3 - 4' evaluates to -5 and `1 + 2 * (3 + 4)' to 15.
C9_ExpressionsParseByPrecedence ==
    /\ Cardinality(ExpressionTexts) = Cardinality(Expressions)
    /\ (src \in ExpressionTexts \cup {ProgArithmetic}) => pc \notin {"hung", "failed"}
    /\ (src \in ExpressionTexts /\ pc \notin {"tokenize", "parse"}) =>
            /\ ast.node.kind = "Program"
            /\ Len(ast.node.body) = 1
            /\ ast.node.body[1].kind = "PrintStatement"
            /\ <<src, ast.node.body[1].value>> \in ExpressionPrograms
    /\ (src = ProgArithmetic /\ pc = "done") =>
            /\ out[1] = IntV(-5)
            /\ out[2] = IntV(15)

\* C9: `1 - 2 - 3' was parsed as (1 - 2) - 3 and printed -4
C9_Witness ==
    LET e == BinaryExpression(BinaryExpression(IntLiteral(1), "-", IntLiteral(2)),
                              "-", IntLiteral(3))
    IN  /\ src = ProgExpression(e) /\ pc = "done"
        /\ ast.node = Program(<<PrintStatement(e)>>)
        /\ out = <<IntV(-4)>>

\* C10: a call whose callee is not a function (an Integer, a Boolean or
\* NoValue) fails as soon as the callee has its value: no argument is evaluated,
\* no scope is created and nothing more is printed.
C10_NotCallableFailsAtCallee ==
    [][(Returned("Callee") /\ ctl.val.t # "fn") =>
        /\ ctl'.m = "throw"
        /\ scopes' = scopes
        /\ out' = out
    ]_vars

\* C11: evaluation is left to right and depth first.  A BinaryExpression
\* evaluates its left operand, then its right operand, then applies the
\* operator to the two values in that order.  A call evaluates its callee, then
\* its arguments from left to right in the scope of the call, and only then
\* runs the body, the parameters bound to the argument values in that order.
\* Each print appends its value to the output, so the output of
\* `print p(1) - p(2) * p(3); print add(p(4), p(5) + p(6));' (p prints its
\* argument, add prints 0) is 1 2 3 -5 4 5 6 0 15.
C11_EvaluationIsLeftToRight ==
    [][/\ Entering("BinaryExpression") =>
            /\ ctl' = Exec(ctl.node.left, ctl.scope)
            /\ Tail(kont') = kont
       /\ Returned("BinaryLeft") =>
            /\ ctl' = Exec(Head(kont).node.right, Head(kont).scope)
            /\ Head(kont').val = ctl.val
            /\ Tail(kont') = Tail(kont)
       /\ Returned("BinaryRight") =>
            /\ ctl' = Ret(ApplyOperator(Head(kont).node.operator, Head(kont).val, ctl.val))
            /\ kont' = Tail(kont)
       /\ Entering("FuncCallExpression") =>
            /\ ctl' = Exec(ctl.node.func, ctl.scope)
            /\ Tail(kont') = kont
       /\ (Returned("Callee") /\ ctl.val.t = "fn" /\ Head(kont).node.args # <<>>) =>
            /\ ctl' = Exec(Head(kont).node.args[1], Head(kont).scope)
            /\ Head(kont').val = ctl.val /\ Head(kont').vals = <<>>
            /\ scopes' = scopes
       /\ (Returned("Argument") /\ Head(kont).i < Len(Head(kont).node.args)) =>
            /\ ctl' = Exec(Head(kont).node.args[Head(kont).i + 1], Head(kont).scope)
            /\ Head(kont').vals = Append(Head(kont).vals, ctl.val)
            /\ Len(Head(kont').vals) = Head(kont).i
            /\ scopes' = scopes
       /\ (CallReady /\ CallFunc.t = "fn" /\ ctl'.m = "exec") =>
            /\ Len(CallArgVals) = Len(Head(kont).node.args)
            /\ ctl'.node = CallFunc.v.body
            /\ \A i \in 1..Len(CallFunc.v.args) :
                  ObjGet(scopes'[ctl'.scope].objects, CallFunc.v.args[i])
                      = ArgVal(CallArgVals, i)
       /\ Returned("Print") => out' = Append(out, ctl.val)
       /\ out' # out => Returned("Print")
       /\ (src = ProgEvaluationOrder /\ pc' = "done") =>
            out' = <<IntV(1), IntV(2), IntV(3), IntV(-5),
                     IntV(4), IntV(5), IntV(6), IntV(0), IntV(15)>>
    ]_vars

\* C11: the evaluation-order text has run to its end with that output
C11_Witness ==
    /\ src = ProgEvaluationOrder /\ pc = "done"
    /\ out = <<IntV(1), IntV(2), IntV(3), IntV(-5),
               IntV(4), IntV(5), IntV(6), IntV(0), IntV(15)>>

\* the n-th Fibonacci number
RECURSIVE Fibonacci(_)
Fibonacci(n) == IF n < 2 THEN n ELSE Fibonacci(n - 1) + Fibonacci(n - 2)

\* the fib texts, each with the output expected of it
FibOutputs == {<<ProgFib(n), <<IntV(Fibonacci(n))>>>> : n \in 0..MaxFib}

FibTexts == {ProgFib(n) : n \in 0..MaxFib}

\* C12: with fib of src/README.md defined at top level, the execution of
\* `call p(fib(n));' terminates for every n in 0..MaxFib and prints the n-th
\* Fibonacci number.
\* On the way every Return signal is caught by the call whose body threw it,
\* which returns the carried value, and no binding of n ever changes once
\* made, so fib(n - 2) reads the n of its own call.
C12_FibTerminatesWithFibonacci ==
    /\ [][(src \in FibTexts) =>
            (/\ (pc = "execute" /\ ctl.m = "throw" /\ kont # <<>>
                 /\ Head(kont).k = "FuncBody") =>
                     /\ ctl.err.type = "TSFuncRetError"
                     /\ ctl' = Ret(ctl.err.value)
                     /\ kont' = Tail(kont)
             /\ \A s \in 1..Len(scopes) :
                   Binds(scopes, s, <<"n">>) =>
                       scopes'[s].objects[<<"n">>] = scopes[s].objects[<<"n">>]
             /\ pc' = "done" => <<src, out'>> \in FibOutputs)]_vars
    /\ (src \in FibTexts /\ pc = "execute") ~> (pc = "done" /\ <<src, out>> \in FibOutputs)

\* C12: fib(MaxFib) was printed after recursive calls: more than MaxFib scopes
\* bind n
C12_Witness ==
    /\ src = ProgFib(MaxFib) /\ pc = "done"
    /\ out = <<IntV(Fibonacci(MaxFib))>>
    /\ Cardinality({s \in 1..Len(scopes) : Binds(scopes, s, <<"n">>)}) > MaxFib

\* the letters from position idx of the input up to the first character that
\* is no letter, or up to the end of the input
RECURSIVE LetterRun(_, _)
LetterRun(input, idx) ==
    IF idx <= Len(input) /\ input[idx] \in Letters
    THEN <<input[idx]>> \o LetterRun(input, idx + 1)
    ELSE <<>>

\* C13: for a run of letters tokenize emits exactly one token and goes on
\* after the run: the keyword token, with no lexeme, when the run is one of
\* the twelve lowercase keywords, and otherwise an Id token whose lexeme is
\* the run.
C13_LetterRunIsKeywordOrId ==
    [][(pc = "tokenize" /\ index <= Len(src) /\ src[index] \in Letters) =>
        LET run == LetterRun(src, index) IN
        /\ pc' = "tokenize"
        /\ index' = index + Len(run)
        /\ tokens' = Append(tokens, IF run \in DOMAIN keywords
                                    THEN [type |-> keywords[run], has |-> FALSE, value |-> <<>>]
                                    ELSE [type |-> "Id", has |-> TRUE, value |-> run])
    ]_vars

====
